---- MODULE Spec2Model ----
(***************************************************************************)
(* Model of rather3d (src/src/main.rs): the mesh reader Object::read, the  *)
(* transform builders, Object::project, get_point and the event loop of    *)
(* main.                                                                   *)
(*                                                                         *)
(* Numbers.  The program computes in f64.  Here an f64 is a pair <<o, c>>   *)
(* standing for c / Unit * Eps^o: c is a fixed-point mantissa counting     *)
(* 1/Unit, rounded to the nearest 1/Unit, and Eps = 6.123e-17 is the value *)
(* f64 gives cos(90 degrees).  Order 0 holds the ordinary values; order 1  *)
(* and above the rounding residues that f64 trigonometry leaves where the  *)
(* exact value is zero (cos 90, sin 180, ...); negative orders the         *)
(* quotients by such residues.  A sum keeps the term of the lowest order,  *)
(* as f64 absorbs a term 1e-16 times smaller than the other.  Angles and   *)
(* pointer deltas are whole degrees, held as integers.                     *)
(***************************************************************************)
EXTENDS Integers, Sequences, FiniteSets, TLC

----------------------------------------------------------------------------
(* Fixed-point arithmetic standing for f64.                                *)

Unit == 1000

Abs(a) == IF a < 0 THEN -a ELSE a

Sgn(a) == IF a < 0 THEN -1 ELSE 1

\* n / d for n >= 0, d > 0, rounded to the nearest integer.
RoundDiv(n, d) == (n + (d \div 2)) \div d

\* a * b
FMul(a, b) ==
    LET x == Abs(a)
        y == Abs(b)
    IN  Sgn(a) * Sgn(b) * (x * (y \div Unit) + RoundDiv(x * (y % Unit), Unit))

\* <<floor(r * u / b), remainder>> for 0 <= r < b and u a power of ten,
\* digit by digit so that no intermediate product leaves the integer range.
RECURSIVE FracDigits(_, _, _)
FracDigits(r, b, u) ==
    IF u = 1
    THEN << 0, r >>
    ELSE LET t == r * 10
             rest == FracDigits(t % b, b, u \div 10)
         IN  << (t \div b) * (u \div 10) + rest[1], rest[2] >>

\* a / b, b # 0
FDiv(a, b) ==
    LET x == Abs(a)
        y == Abs(b)
        d == FracDigits(x % y, y, Unit)
    IN  Sgn(a) * Sgn(b)
          * ((x \div y) * Unit + d[1] + (IF 2 * d[2] >= y THEN 1 ELSE 0))

\* f64::sin of a whole number of degrees, 0..90, in 1/Unit.
SinTable ==
    << 17, 35, 52, 70, 87, 105, 122, 139, 156, 174, 191, 208, 225, 242, 259,
       276, 292, 309, 326, 342, 358, 375, 391, 407, 423, 438, 454, 469, 485,
       500, 515, 530, 545, 559, 574, 588, 602, 616, 629, 643, 656, 669, 682,
       695, 707, 719, 731, 743, 755, 766, 777, 788, 799, 809, 819, 829, 839,
       848, 857, 866, 875, 883, 891, 899, 906, 914, 921, 927, 934, 940, 946,
       951, 956, 961, 966, 970, 974, 978, 982, 985, 988, 990, 993, 995, 996,
       998, 999, 999, 1000, 1000 >>

\* The exact sine of a whole number of degrees, in 1/Unit.
SinExact(deg) ==
    LET d == deg % 360
        q == IF d <= 90 THEN d
             ELSE IF d <= 180 THEN 180 - d
             ELSE IF d <= 270 THEN d - 180
             ELSE 360 - d
        v == IF q = 0 THEN 0 ELSE SinTable[q]
    IN  IF d <= 180 THEN v ELSE -v

\* f64 numbers: <<order, mantissa>>; the mantissa of zero is 0 at order 0.
Norm(o, c) == IF c = 0 THEN << 0, 0 >> ELSE << o, c >>

R(c) == << 0, c >>

Zero == R(0)

One == R(Unit)

NNeg(a) == << a[1], -a[2] >>

NAdd(a, b) ==
    IF a[2] = 0 THEN b
    ELSE IF b[2] = 0 THEN a
    ELSE IF a[1] < b[1] THEN a
    ELSE IF b[1] < a[1] THEN b
    ELSE Norm(a[1], a[2] + b[2])

NSub(a, b) == NAdd(a, NNeg(b))

NMul(a, b) == Norm(a[1] + b[1], FMul(a[2], b[2]))

\* a / b, b nonzero
NDiv(a, b) == Norm(a[1] - b[1], FDiv(a[2], b[2]))

\* a < b
NLt(a, b) == NSub(a, b)[2] < 0

\* (90 k degrees in radians).sin() for even k # 0, in Eps / Unit: what f64
\* returns in place of zero.
SinResidue(k) ==
    IF (k \div 2) % 2 = 0 THEN -k * Unit ELSE k * Unit

\* (90 k degrees in radians).cos() for odd k, in Eps / Unit; from k = 9 on
\* the rounding of the angle itself shows.
CosResidue(k) ==
    LET ka == Abs(k)
    IN  CASE ka = 9  -> 38010
          [] ka = 11 -> 18010
          [] ka = 13 -> -16010
          [] OTHER   -> IF ((ka - 1) \div 2) % 2 = 0 THEN ka * Unit ELSE -ka * Unit

\* (deg * PI / 180.0).sin()
Sin(deg) ==
    IF deg # 0 /\ deg % 180 = 0
    THEN << 1, SinResidue(deg \div 90) >>
    ELSE R(SinExact(deg))

\* (deg * PI / 180.0).cos()
Cos(deg) ==
    IF deg % 180 = 90
    THEN << 1, CosResidue(deg \div 90) >>
    ELSE R(SinExact(deg + 90))

\* deg.to_radians().sin()
SinRad(deg) == Sin(deg)

\* deg.to_radians().cos(): deg * (PI / 180.0) rounds 810 degrees differently.
CosRad(deg) == IF Abs(deg) = 810 THEN << 1, 9 * Unit >> ELSE Cos(deg)

----------------------------------------------------------------------------
(* nalgebra values: Point3 / Vector3 are 3-tuples, Vector4 a 4-tuple,      *)
(* Matrix4 a 4-tuple of rows (Matrix4::new takes its entries row by row).  *)

\* Row i of a times column j of b.
Dot(a, b, i, j) ==
    NAdd(NAdd(NAdd(NMul(a[i][1], b[1][j]), NMul(a[i][2], b[2][j])),
              NMul(a[i][3], b[3][j])), NMul(a[i][4], b[4][j]))

MatRow(a, b, i) == << Dot(a, b, i, 1), Dot(a, b, i, 2), Dot(a, b, i, 3), Dot(a, b, i, 4) >>

\* Matrix4 * Matrix4
MatMul(a, b) == << MatRow(a, b, 1), MatRow(a, b, 2), MatRow(a, b, 3), MatRow(a, b, 4) >>

VecDot(a, v, i) ==
    NAdd(NAdd(NAdd(NMul(a[i][1], v[1]), NMul(a[i][2], v[2])),
              NMul(a[i][3], v[3])), NMul(a[i][4], v[4]))

\* Matrix4 * Vector4
MatVec(a, v) == << VecDot(a, v, 1), VecDot(a, v, 2), VecDot(a, v, 3), VecDot(a, v, 4) >>

\* Point3::to_homogeneous
to_homogeneous(p) == << p[1], p[2], p[3], One >>

\* Point3::from_homogeneous: None when the fourth component is zero.
from_homogeneous(v) ==
    IF v[4] = Zero
    THEN [some |-> FALSE, point |-> << Zero, Zero, Zero >>]
    ELSE [some |-> TRUE,
          point |-> << NDiv(v[1], v[4]), NDiv(v[2], v[4]), NDiv(v[3], v[4]) >>]

\* -1.0 * camera_position
NegPoint(p) == << NMul(R(-Unit), p[1]), NMul(R(-Unit), p[2]), NMul(R(-Unit), p[3]) >>

scale(s) ==
    << << s, Zero, Zero, Zero >>,
       << Zero, s, Zero, Zero >>,
       << Zero, Zero, s, Zero >>,
       << Zero, Zero, Zero, One >> >>

translate(point) ==
    << << One, Zero, Zero, point[1] >>,
       << Zero, One, Zero, point[2] >>,
       << Zero, Zero, One, point[3] >>,
       << Zero, Zero, Zero, One >> >>

rotate_x(x) ==
    << << One, Zero, Zero, Zero >>,
       << Zero, Cos(x), Sin(x), Zero >>,
       << Zero, NNeg(Sin(x)), Cos(x), Zero >>,
       << Zero, Zero, Zero, One >> >>

rotate_y(y) ==
    << << Cos(y), Zero, Sin(y), Zero >>,
       << Zero, One, Zero, Zero >>,
       << NNeg(Sin(y)), Zero, Cos(y), Zero >>,
       << Zero, Zero, Zero, One >> >>

rotate_z(z) ==
    << << Cos(z), Sin(z), Zero, Zero >>,
       << NNeg(Sin(z)), Cos(z), Zero, Zero >>,
       << Zero, Zero, One, Zero >>,
       << Zero, Zero, Zero, One >> >>

\* rotate with the three factors in the opposite order.
MutRotateZYX(vector) ==
    MatMul(MatMul(rotate_z(vector[3]), rotate_y(vector[2])), rotate_x(vector[1]))

rotate(vector) ==
    MatMul(MatMul(rotate_x(vector[1]), rotate_y(vector[2])), rotate_z(vector[3]))

\* 1.0 / (fov / 2.0).tan(); main only ever passes fov = PI / 4.  At 1/Unit
\* the depth entries (f + n) / (n - f) = -1.0002 and 2 f n / (n - f) = -2.0002
\* of the matrix below round to -1.000 and -2.000: depths within 1/Unit of
\* the far plane are not told apart.
InvTanHalf(fov) == CASE fov = "PI/4" -> R(2414)

perspective_transform_fov(fov, aspect, n, f) ==
    LET e == InvTanHalf(fov)
    IN  << << NDiv(e, aspect), Zero, Zero, Zero >>,
           << Zero, e, Zero, Zero >>,
           << Zero, Zero, NDiv(NAdd(f, n), NSub(n, f)),
              NDiv(NMul(NMul(R(2 * Unit), f), n), NSub(n, f)) >>,
           << Zero, Zero, R(-Unit), Zero >> >>

\* camera_from_world with the two factors swapped.
MutCameraFromWorld(camera_position, camera_orientation) ==
    MatMul(translate(NegPoint(camera_position)), rotate(camera_orientation))

\* let camera_from_world = rotate(camera_orientation) * translate(-1.0 * camera_position)
camera_from_world(camera_position, camera_orientation) ==
    MatMul(rotate(camera_orientation), translate(NegPoint(camera_position)))

\* let world_from_object = translate * scale * rotate_y * rotate_z
world_from_object ==
    LET object_position == << Zero, Zero, R(100 * Unit) >>
    IN  MatMul(MatMul(MatMul(translate(object_position), scale(One)),
                      rotate_y(0)), rotate_z(0))

\* Object::project.  The result of every from_homogeneous is unwrapped, so a
\* vertex whose fourth component is zero makes the call panic.
project(self, camera_position, camera_orientation, window_size) ==
    LET perspective_from_camera ==
            perspective_transform_fov("PI/4",
                NDiv(window_size[1], window_size[2]), One, R(10000 * Unit))
        m == MatMul(MatMul(perspective_from_camera,
                           camera_from_world(camera_position, camera_orientation)),
                    world_from_object)
        out == [i \in 1..Len(self.points) |->
                   from_homogeneous(MatVec(m, to_homogeneous(self.points[i])))]
    IN  [panic |-> \E i \in 1..Len(self.points) : ~out[i].some,
         points |-> [i \in 1..Len(self.points) |-> out[i].point]]

----------------------------------------------------------------------------
(* Viewport mapping and the per-face draw loop.                            *)

\* get_point with the depth comparison turned round.
MutGetPointGE(points, face, window_size) ==
    IF face < 1 \/ face > Len(points)
    THEN [panic |-> TRUE, point |-> << Zero, Zero >>, clipped |-> FALSE]
    ELSE [panic |-> FALSE,
          point |-> << NMul(NDiv(NAdd(points[face][1], One), R(2 * Unit)), window_size[1]),
                       NMul(NDiv(NAdd(points[face][2], One), R(2 * Unit)), window_size[2]) >>,
          clipped |-> ~NLt(points[face][3], One)]

\* get_point.  face is the 1-based index read from the file; points[face - 1]
\* panics when face is 0 (usize underflow) or beyond the vector.
get_point(points, face, window_size) ==
    IF face < 1 \/ face > Len(points)
    THEN [panic |-> TRUE, point |-> << Zero, Zero >>, clipped |-> FALSE]
    ELSE [panic |-> FALSE,
          point |-> << NMul(NDiv(NAdd(points[face][1], One), R(2 * Unit)), window_size[1]),
                       NMul(NDiv(NAdd(points[face][2], One), R(2 * Unit)), window_size[2]) >>,
          clipped |-> NLt(points[face][3], One)]

\* The three draw calls of face k.
Edges(k, g1, g2, g3) ==
    << [face |-> k, from |-> g1.point, to |-> g2.point],
       [face |-> k, from |-> g2.point, to |-> g3.point],
       [face |-> k, from |-> g3.point, to |-> g1.point] >>

\* DrawFace skipping a face as soon as one of its vertices is flagged.
MutDrawFaceAny(points, face, k, window_size) ==
    IF Len(face) < 3
    THEN [panic |-> TRUE, calls |-> << >>]
    ELSE LET g1 == get_point(points, face[1], window_size)
             g2 == get_point(points, face[2], window_size)
             g3 == get_point(points, face[3], window_size)
         IN  IF g1.panic \/ g2.panic \/ g3.panic
             THEN [panic |-> TRUE, calls |-> << >>]
             ELSE IF g1.clipped \/ g2.clipped \/ g3.clipped
             THEN [panic |-> FALSE, calls |-> << >>]
             ELSE [panic |-> FALSE, calls |-> Edges(k, g1, g2, g3)]

\* The body of `for face in &object.faces`: the draw calls one face issues.
\* face[0], face[1], face[2] panic on a face of fewer than three indices.
DrawFace(points, face, k, window_size) ==
    IF Len(face) < 3
    THEN [panic |-> TRUE, calls |-> << >>]
    ELSE LET g1 == get_point(points, face[1], window_size)
             g2 == get_point(points, face[2], window_size)
             g3 == get_point(points, face[3], window_size)
         IN  IF g1.panic \/ g2.panic \/ g3.panic
             THEN [panic |-> TRUE, calls |-> << >>]
             ELSE IF g1.clipped /\ g2.clipped /\ g3.clipped
             THEN [panic |-> FALSE, calls |-> << >>]
             ELSE [panic |-> FALSE, calls |-> Edges(k, g1, g2, g3)]

\* The loop over faces from face k on; stops at the first panic.
RECURSIVE DrawFaces(_, _, _, _)
DrawFaces(points, faces, k, window_size) ==
    IF k > Len(faces)
    THEN [panic |-> FALSE, calls |-> << >>, done |-> Len(faces)]
    ELSE LET d == DrawFace(points, faces[k], k, window_size)
         IN  IF d.panic
             THEN [panic |-> TRUE, calls |-> << >>, done |-> k - 1]
             ELSE LET rest == DrawFaces(points, faces, k + 1, window_size)
                  IN  [panic |-> rest.panic, calls |-> d.calls \o rest.calls,
                       done |-> rest.done]

----------------------------------------------------------------------------
(* Object::read.  A file is a sequence of lines, a line the sequence of    *)
(* its whitespace-separated words.                                         *)

\* str::parse::<f64>(w)
ParseF64(w) ==
    CASE w = "0"   -> [ok |-> TRUE, val |-> Zero]
      [] w = "1"   -> [ok |-> TRUE, val |-> One]
      [] w = "2"   -> [ok |-> TRUE, val |-> R(2 * Unit)]
      [] w = "3"   -> [ok |-> TRUE, val |-> R(3 * Unit)]
      [] w = "-1"  -> [ok |-> TRUE, val |-> R(-Unit)]
      [] w = "1.5" -> [ok |-> TRUE, val |-> R(Unit + Unit \div 2)]
      [] OTHER     -> [ok |-> FALSE, val |-> Zero]

\* str::parse::<usize>(w)
ParseUsize(w) ==
    CASE w = "0"   -> [ok |-> TRUE, val |-> 0]
      [] w = "1"   -> [ok |-> TRUE, val |-> 1]
      [] w = "2"   -> [ok |-> TRUE, val |-> 2]
      [] w = "3"   -> [ok |-> TRUE, val |-> 3]
      [] OTHER     -> [ok |-> FALSE, val |-> 0]

\* Vector3::from_iterator(words.map(|w| parse::<f64>(w).unwrap())).into():
\* the iterator is pulled three times, so only the first three words are
\* parsed; a word that does not parse, or fewer than three words, panics.
ReadVertex(words) ==
    IF Len(words) < 3 \/ \E i \in 1..3 : ~ParseF64(words[i]).ok
    THEN [panic |-> TRUE, point |-> << Zero, Zero, Zero >>]
    ELSE [panic |-> FALSE,
          point |-> << ParseF64(words[1]).val, ParseF64(words[2]).val,
                       ParseF64(words[3]).val >>]

\* words.map(|w| parse::<usize>(w).unwrap()).collect(): every word is parsed.
ReadFace(words) ==
    IF \E i \in 1..Len(words) : ~ParseUsize(words[i]).ok
    THEN [panic |-> TRUE, face |-> << >>]
    ELSE [panic |-> FALSE, face |-> [i \in 1..Len(words) |-> ParseUsize(words[i]).val]]

\* One iteration of `for line in reader.lines()`.
ReadLine(points, faces, line) ==
    IF Len(line) = 0
    THEN [panic |-> FALSE, points |-> points, faces |-> faces]
    ELSE IF Head(line) = "v"
    THEN LET r == ReadVertex(Tail(line))
         IN  IF r.panic
             THEN [panic |-> TRUE, points |-> points, faces |-> faces]
             ELSE [panic |-> FALSE, points |-> Append(points, r.point), faces |-> faces]
    ELSE IF Head(line) = "f"
    THEN LET r == ReadFace(Tail(line))
         IN  IF r.panic
             THEN [panic |-> TRUE, points |-> points, faces |-> faces]
             ELSE [panic |-> FALSE, points |-> points, faces |-> Append(faces, r.face)]
    ELSE [panic |-> FALSE, points |-> points, faces |-> faces]

\* The whole loop over a readable file, from line k on.
RECURSIVE ReadLines(_, _, _, _)
ReadLines(points, faces, lines, k) ==
    IF k > Len(lines)
    THEN [panic |-> FALSE, points |-> points, faces |-> faces]
    ELSE LET r == ReadLine(points, faces, lines[k])
         IN  IF r.panic THEN r ELSE ReadLines(r.points, r.faces, lines, k + 1)

----------------------------------------------------------------------------
(* Bounds of the model and the inputs it draws.                            *)

MaxEvents == 4
MaxLines == 2
MaxArgs == 4
MaxCoord == 1
MaxQuarter == 3

\* Words a mesh file line is made of.
Tags == {"v", "f", "vn"}
Words == {"0", "1", "1.5", "abc"}
Lines ==
    { << >> } \cup
    { << t >> \o a : t \in Tags,
                     a \in UNION { [1..n -> Words] : n \in 0..MaxArgs } }

\* Mesh files the viewer is started on.
SceneFiles ==
    { << << "v", "0", "1", "0" >>, << "v", "1", "-1", "0" >>,
         << "v", "-1", "-1", "0" >>, << "f", "1", "2", "3" >> >>,
      << << "v", "0", "0", "0" >>, << "f", "1", "1", "1" >>,
         << "f", "1", "2", "0" >> >> }

Scene(file) ==
    LET r == ReadLines(<< >>, << >>, file, 1)
    IN  [points |-> r.points, faces |-> r.faces]

\* Events the window delivers.
Keys == {"Up", "Down", "Left", "Right", "Space"}
Sizes == { << R(1920 * Unit), R(1080 * Unit) >>, << R(800 * Unit), R(800 * Unit) >> }
MouseDeltas == { << 180, 0 >>, << 0, 90 >> }

\* Inputs of the transform builders.
Coords == { R(c * Unit) : c \in -1..MaxCoord }
Angles == { 90 * q : q \in 0..MaxQuarter }
SamplePoints == { << One, R(2 * Unit), R(3 * Unit) >>, << R(-2 * Unit), One, Zero >>,
                  << Zero, Zero, Zero >> }

----------------------------------------------------------------------------
VARIABLES
    \* Object::read
    rd_pc,              \* "open", "lines", "ok", "io_error", "panicked"
    rd_points,          \* let mut points
    rd_faces,           \* let mut faces
    rd_line,            \* the line the loop read last
    rd_count,           \* lines read so far
    \* main
    pc,                 \* "running", "panicked"
    object,             \* let object = Object::read(..).unwrap()
    window_size,
    forward,
    dry,
    cursor,
    camera_position,
    camera_orientation,
    held,               \* keys the user holds down
    viewport,           \* the window's size as last reported by a resize event
    event,              \* the event of the last loop iteration
    proj,               \* the last call of object.project and what it returned
    calls,              \* the draw_from_to calls of the last frame
    steps,              \* camera updates since the last projection
    frames,             \* render events handled
    nevents,            \* loop iterations so far
    \* transform builders on their own
    mx_t, mx_r, mx_p, mx_op, mx_out

rd_vars == << rd_pc, rd_points, rd_faces, rd_line, rd_count >>

main_vars == << pc, object, window_size, forward, dry, cursor, camera_position,
                camera_orientation, held, viewport, event, proj, calls, steps,
                frames, nevents >>

mx_vars == << mx_t, mx_r, mx_p, mx_op, mx_out >>

vars == << rd_vars, main_vars, mx_vars >>

SIZE_X == R(1920 * Unit)
SIZE_Y == R(1080 * Unit)

NoEvent == [kind |-> "none", size |-> << Zero, Zero >>, pos |-> << 0, 0 >>, key |-> ""]

NoProj == [called |-> FALSE, camera_position |-> << Zero, Zero, Zero >>,
           camera_orientation |-> << 0, 0, 0 >>, window_size |-> << Zero, Zero >>,
           updates |-> 0, panic |-> FALSE, points |-> << >>]

\* Before Object::read is entered.
RdInit ==
    /\ rd_pc = "open"
    /\ rd_points = << >>
    /\ rd_faces = << >>
    /\ rd_line = << >>
    /\ rd_count = 0

\* main, lines 177 to 190, with the mesh read from `file`.
MainInit(file) ==
    /\ pc = "running"
    /\ object = Scene(file)
    /\ window_size = << SIZE_X, SIZE_Y >>
    /\ forward = Zero
    /\ dry = 0
    /\ cursor = << 0, 0 >>
    /\ camera_position = << Zero, Zero, Zero >>
    /\ camera_orientation = << 0, 0, 0 >>
    /\ held = {}
    /\ viewport = << SIZE_X, SIZE_Y >>
    /\ event = NoEvent
    /\ proj = NoProj
    /\ calls = << >>
    /\ steps = 0
    /\ frames = 0
    /\ nevents = 0

MxInit ==
    /\ mx_t = << Zero, Zero, Zero >>
    /\ mx_r = << 0, 0, 0 >>
    /\ mx_p = << Zero, Zero, Zero >>
    /\ mx_op = "idle"
    /\ mx_out = << Zero, Zero, Zero, Zero >>

DefaultFile == CHOOSE f \in SceneFiles : Len(f) = 4

----------------------------------------------------------------------------
(* Object::read, one loop iteration per step.                              *)

\* File::open(filename)? succeeds.
Open ==
    /\ rd_pc = "open"
    /\ rd_pc' = "lines"
    /\ UNCHANGED << rd_points, rd_faces, rd_line, rd_count, main_vars, mx_vars >>

\* File::open(filename)? returns the io::Error.
OpenFail ==
    /\ rd_pc = "open"
    /\ rd_pc' = "io_error"
    /\ UNCHANGED << rd_points, rd_faces, rd_line, rd_count, main_vars, mx_vars >>

\* The loop body on the next line of the file.
NextLine ==
    /\ rd_pc = "lines"
    /\ rd_count < MaxLines
    /\ \E line \in Lines :
          LET r == ReadLine(rd_points, rd_faces, line)
          IN  /\ rd_line' = line
              /\ rd_count' = rd_count + 1
              /\ rd_points' = r.points
              /\ rd_faces' = r.faces
              /\ rd_pc' = IF r.panic THEN "panicked" ELSE "lines"
    /\ UNCHANGED << main_vars, mx_vars >>

\* `let line = line?;` returns the io::Error of a line that cannot be read.
LineFail ==
    /\ rd_pc = "lines"
    /\ rd_count < MaxLines
    /\ rd_pc' = "io_error"
    /\ UNCHANGED << rd_points, rd_faces, rd_line, rd_count, main_vars, mx_vars >>

\* The lines are exhausted: Ok(Object { points, faces }).
Eof ==
    /\ rd_pc = "lines"
    /\ rd_pc' = "ok"
    /\ UNCHANGED << rd_points, rd_faces, rd_line, rd_count, main_vars, mx_vars >>

----------------------------------------------------------------------------
(* The event loop of main: one iteration of `while let Some(e)` per step.  *)

\* if let Some(Button::Keyboard(key)) = e.press_args()
PressKey(fwd, dr, key) ==
    CASE key = "Up"    -> [forward |-> R(-Unit), dry |-> dr]
      [] key = "Down"  -> [forward |-> One, dry |-> dr]
      [] key = "Left"  -> [forward |-> fwd, dry |-> 1]
      [] key = "Right" -> [forward |-> fwd, dry |-> -1]
      [] OTHER         -> [forward |-> fwd, dry |-> dr]

\* if let Some(button) = e.release_args()
ReleaseKey(fwd, dr, key) ==
    CASE key \in {"Up", "Down"}    -> [forward |-> Zero, dry |-> dr]
      [] key \in {"Left", "Right"} -> [forward |-> fwd, dry |-> 0]
      [] OTHER                     -> [forward |-> fwd, dry |-> dr]

\* e.mouse_relative(|pos| ..) on the orientation
MouseLook(orientation, pos) ==
    << orientation[1] + pos[2], orientation[2] + pos[1], orientation[3] >>

\* The camera update moving along the yaw it had before turning.
MutCameraUpdateOldYaw(position, orientation, fwd, dr) ==
    [position |-> << NAdd(position[1], NMul(fwd, SinRad(orientation[2]))),
                     position[2],
                     NSub(position[3], NMul(fwd, CosRad(orientation[2]))) >>,
     orientation |-> << orientation[1], orientation[2] - dr, orientation[3] >>]

\* Lines 232 to 234.
CameraUpdate(position, orientation, fwd, dr) ==
    LET yaw == orientation[2] - dr
    IN  [position |-> << NAdd(position[1], NMul(fwd, SinRad(yaw))),
                         position[2],
                         NSub(position[3], NMul(fwd, CosRad(yaw))) >>,
         orientation |-> << orientation[1], yaw, orientation[3] >>]

\* An iteration whose event is not a render event: the handlers have left
\* ws, fwd, dr, cur, orientation; the camera update follows.
Iterate(ev, ws, fwd, dr, cur, orientation) ==
    LET cam == CameraUpdate(camera_position, orientation, fwd, dr)
    IN  /\ event' = ev
        /\ window_size' = ws
        /\ forward' = fwd
        /\ dry' = dr
        /\ cursor' = cur
        /\ camera_position' = cam.position
        /\ camera_orientation' = cam.orientation
        /\ steps' = steps + 1
        /\ nevents' = nevents + 1
        /\ UNCHANGED << pc, object, proj, calls, frames, rd_vars, mx_vars >>

Resize ==
    /\ pc = "running"
    /\ nevents < MaxEvents
    /\ \E sz \in Sizes :
          /\ viewport' = sz
          /\ held' = held
          /\ Iterate([NoEvent EXCEPT !.kind = "resize", !.size = sz],
                     sz, forward, dry, cursor, camera_orientation)

MouseRelative ==
    /\ pc = "running"
    /\ nevents < MaxEvents
    /\ \E pos \in MouseDeltas :
          /\ UNCHANGED << viewport, held >>
          /\ Iterate([NoEvent EXCEPT !.kind = "mouse", !.pos = pos],
                     window_size, forward, dry, pos,
                     MouseLook(camera_orientation, pos))

Press ==
    /\ pc = "running"
    /\ nevents < MaxEvents
    /\ \E key \in Keys \ held :
          LET s == PressKey(forward, dry, key)
          IN  /\ held' = held \cup {key}
              /\ viewport' = viewport
              /\ Iterate([NoEvent EXCEPT !.kind = "press", !.key = key],
                         window_size, s.forward, s.dry, cursor, camera_orientation)

Release ==
    /\ pc = "running"
    /\ nevents < MaxEvents
    /\ \E key \in held :
          LET s == ReleaseKey(forward, dry, key)
          IN  /\ held' = held \ {key}
              /\ viewport' = viewport
              /\ Iterate([NoEvent EXCEPT !.kind = "release", !.key = key],
                         window_size, s.forward, s.dry, cursor, camera_orientation)

\* An idle event, or any other event no handler of the loop matches.
Idle ==
    /\ pc = "running"
    /\ nevents < MaxEvents
    /\ UNCHANGED << viewport, held >>
    /\ Iterate([NoEvent EXCEPT !.kind = "idle"],
               window_size, forward, dry, cursor, camera_orientation)

\* A render event: the camera update cam, then gl.draw with the projection
\* taken at `pose`.
RenderStep(cam, pose) ==
    LET pr == project(object, pose.position, pose.orientation, window_size)
        dr == IF pr.panic
              THEN [panic |-> TRUE, calls |-> << >>]
              ELSE DrawFaces(pr.points, object.faces, 1, window_size)
    IN  /\ pc = "running"
        /\ nevents < MaxEvents
        /\ event' = [NoEvent EXCEPT !.kind = "render"]
        /\ camera_position' = cam.position
        /\ camera_orientation' = cam.orientation
        /\ proj' = [called |-> TRUE,
                    camera_position |-> pose.position,
                    camera_orientation |-> pose.orientation,
                    window_size |-> window_size,
                    updates |-> steps + 1,
                    panic |-> pr.panic,
                    points |-> pr.points]
        /\ calls' = dr.calls
        /\ pc' = IF pr.panic \/ dr.panic THEN "panicked" ELSE "running"
        /\ steps' = 0
        /\ frames' = frames + 1
        /\ nevents' = nevents + 1
        /\ UNCHANGED << object, window_size, forward, dry, cursor, held, viewport,
                        rd_vars, mx_vars >>

\* Render projecting at the pose the iteration started with.
RenderStale ==
    LET cam == CameraUpdate(camera_position, camera_orientation, forward, dry)
    IN  RenderStep(cam, [position |-> camera_position,
                         orientation |-> camera_orientation])

Render ==
    LET cam == CameraUpdate(camera_position, camera_orientation, forward, dry)
    IN  RenderStep(cam, cam)

----------------------------------------------------------------------------
(* The transform builders applied to one point.                            *)

\* camera_from_world * point
ViewPoint ==
    /\ mx_op = "idle"
    /\ mx_op' = "view"
    /\ mx_out' = MatVec(camera_from_world(mx_t, mx_r), to_homogeneous(mx_p))
    /\ UNCHANGED << mx_t, mx_r, mx_p, rd_vars, main_vars >>

\* rotate(vector) * point
RotatePoint ==
    /\ mx_op = "idle"
    /\ mx_op' = "rotate"
    /\ mx_out' = MatVec(rotate(mx_r), to_homogeneous(mx_p))
    /\ UNCHANGED << mx_t, mx_r, mx_p, rd_vars, main_vars >>

----------------------------------------------------------------------------
(* Specifications.                                                         *)

\* The viewer running on a mesh that Object::read returned.
Init ==
    /\ RdInit
    /\ MxInit
    /\ \E file \in SceneFiles : MainInit(file)

Next == Resize \/ MouseRelative \/ Press \/ Release \/ Idle \/ Render

Spec == Init /\ [][Next]_vars

\* Object::read on every file of at most MaxLines lines.
InitRead ==
    /\ RdInit
    /\ MxInit
    /\ MainInit(DefaultFile)

NextRead == Open \/ OpenFail \/ NextLine \/ LineFail \/ Eof

SpecRead == InitRead /\ [][NextRead]_vars

\* The transform builders on every camera pose and point of the bounds.
InitMatrix ==
    /\ RdInit
    /\ MainInit(DefaultFile)
    /\ mx_t \in Coords \X Coords \X Coords
    /\ mx_r \in Angles \X Angles \X Angles
    /\ mx_p \in SamplePoints
    /\ mx_op = "idle"
    /\ mx_out = << Zero, Zero, Zero, Zero >>

NextMatrix == ViewPoint \/ RotatePoint

SpecMatrix == InitMatrix /\ [][NextMatrix]_vars

----------------------------------------------------------------------------
(* Properties.                                                             *)

\* Face k of the mesh and every face before it has three indices that are
\* all within the projected points: the draw loop got through it.
Processed(k) ==
    /\ event.kind = "render"
    /\ ~proj.panic
    /\ k \in 1..Len(object.faces)
    /\ \A j \in 1..k :
          /\ Len(object.faces[j]) >= 3
          /\ \A i \in 1..3 : object.faces[j][i] \in 1..Len(proj.points)

\* The draw calls of the last frame that belong to face k.
CallsOf(k) == SelectSeq(calls, LAMBDA c : c.face = k)

\* What toScreen returned for vertex i of face k in the last frame.
Flag(k, i) == get_point(proj.points, object.faces[k][i], window_size)

\* The normalized z of vertex i of face k in the last frame.
DepthOf(k, i) == proj.points[object.faces[k][i]][3]

\* C1: in a rendered frame every processed face issues no draw call when the
\* clip flag of all three of its vertices is set, and otherwise exactly the
\* three calls p1->p2, p2->p3, p3->p1 in that order, also when one or two
\* vertices are flagged; no face of the mesh issues one or two calls.
C1_DrawCalls ==
    event.kind = "render" =>
      /\ \A k \in 1..Len(object.faces) : Len(CallsOf(k)) \in {0, 3}
      /\ \A k \in 1..Len(object.faces) :
            Processed(k) =>
              IF \A i \in 1..3 : Flag(k, i).clipped
              THEN CallsOf(k) = << >>
              ELSE CallsOf(k) =
                     << [face |-> k, from |-> Flag(k, 1).point, to |-> Flag(k, 2).point],
                        [face |-> k, from |-> Flag(k, 2).point, to |-> Flag(k, 3).point],
                        [face |-> k, from |-> Flag(k, 3).point, to |-> Flag(k, 1).point] >>

\* A frame in which a face with some, but not all, vertices flagged was drawn.
C1_Witness ==
    \E k \in 1..Len(object.faces) :
        /\ Processed(k)
        /\ \E i \in 1..3 : Flag(k, i).clipped
        /\ \E i \in 1..3 : ~Flag(k, i).clipped
        /\ Len(CallsOf(k)) = 3

\* C2 as claimed: a vertex is flagged clipped exactly when its normalized z
\* is >= 1.0, and a face is skipped exactly when all three z are >= 1.0.
C2_Original ==
    \A k \in 1..Len(object.faces) :
        Processed(k) =>
          /\ \A i \in 1..3 : Flag(k, i).clipped <=> ~NLt(DepthOf(k, i), One)
          /\ (CallsOf(k) = << >>) <=> (\A i \in 1..3 : ~NLt(DepthOf(k, i), One))

\* C2 amended: a vertex is flagged clipped exactly when its normalized z is
\* < 1.0; a face is skipped exactly when all three z are < 1.0 and is drawn
\* with three calls as soon as one vertex has z >= 1.0.
C2_Amended ==
    \A k \in 1..Len(object.faces) :
        Processed(k) =>
          /\ \A i \in 1..3 : Flag(k, i).clipped <=> NLt(DepthOf(k, i), One)
          /\ (CallsOf(k) = << >>) <=> (\A i \in 1..3 : NLt(DepthOf(k, i), One))
          /\ (Len(CallsOf(k)) = 3) <=> (\E i \in 1..3 : ~NLt(DepthOf(k, i), One))

\* A frame in which a face was skipped, all its vertices having z < 1.0.
C2_Witness ==
    \E k \in 1..Len(object.faces) :
        /\ Processed(k)
        /\ \A i \in 1..3 : NLt(DepthOf(k, i), One)
        /\ CallsOf(k) = << >>

\* C3: whenever a movement key is held, the speed of its axis is nonzero
\* (forward for Up/Down, dry for Left/Right), after any sequence of key
\* presses and releases.
C3_HeldKeyMoves ==
    /\ (held \cap {"Up", "Down"} # {}) => forward # Zero
    /\ (held \cap {"Left", "Right"} # {}) => dry # 0

\* C4: the projection of a frame is taken at the camera pose that the frame's
\* input processing and camera update leave, and at the viewport size of the
\* most recent resize event.
C4_FreshPose ==
    (event.kind = "render" /\ proj.called) =>
      /\ proj.camera_position = camera_position
      /\ proj.camera_orientation = camera_orientation
      /\ proj.window_size = viewport

\* A frame rendered while the camera is moving and after a resize.
C4_Witness ==
    /\ event.kind = "render"
    /\ proj.called
    /\ forward # Zero
    /\ camera_position # << Zero, Zero, Zero >>
    /\ viewport # << SIZE_X, SIZE_Y >>

\* C5: between the projections of two consecutive frames the camera update
\* runs exactly once, however many events were delivered in between.
C5_OneUpdatePerFrame ==
    (event.kind = "render" /\ frames >= 2) => proj.updates = 1

\* C8: one camera update with speeds (forward, dry) sets yaw' = yaw - dry,
\* x' = x + forward * sin(yaw'), z' = z - forward * cos(yaw'), with the
\* updated yaw in the position step, and leaves y, pitch and roll alone; with
\* both speeds zero the pose is unchanged.  The pose the update starts from
\* is the pose before the iteration, moved by the pointer delta if the event
\* is a pointer motion.
C8_UpdateRule ==
    [][ nevents' = nevents + 1 =>
          LET o == IF event'.kind = "mouse"
                   THEN << camera_orientation[1] + event'.pos[2],
                           camera_orientation[2] + event'.pos[1],
                           camera_orientation[3] >>
                   ELSE camera_orientation
              yaw == o[2] - dry'
          IN  /\ camera_orientation' = << o[1], yaw, o[3] >>
              /\ camera_position' =
                    << NAdd(camera_position[1], NMul(forward', SinRad(yaw))),
                       camera_position[2],
                       NSub(camera_position[3], NMul(forward', CosRad(yaw))) >>
              /\ (forward' = Zero /\ dry' = 0) =>
                    (camera_orientation' = o /\ camera_position' = camera_position)
      ]_vars

\* The camera has turned and then moved along the turned heading.
C8_Witness ==
    /\ forward # Zero
    /\ dry # 0
    /\ camera_orientation[2] # 0
    /\ camera_position[1] # Zero
    /\ camera_position[3] # Zero

\* C6: every face index of a mesh that Object::read returned is within
\* [1, len(points)].
C6_IndicesInRange ==
    rd_pc = "ok" =>
      \A k \in 1..Len(rd_faces) :
          \A i \in 1..Len(rd_faces[k]) : rd_faces[k][i] \in 1..Len(rd_points)

\* The line has a "v" or "f" tag and a word that is not a number of the kind
\* its tag asks for.
BadNumber(line) ==
    /\ Len(line) > 0
    /\ \/ Head(line) = "v" /\ \E i \in 2..Len(line) : ~ParseF64(line[i]).ok
       \/ Head(line) = "f" /\ \E i \in 2..Len(line) : ~ParseUsize(line[i]).ok

\* C7: once a "v" or "f" line with an unparsable word has been read, read
\* has returned a parse error to its caller.
C7_ParseErrorReturned ==
    BadNumber(rd_line) => rd_pc = "parse_error"

\* p - t
Sub(p, t) == << NSub(p[1], t[1]), NSub(p[2], t[2]), NSub(p[3], t[3]) >>

\* Two f64 values equal up to rounding: their difference is zero or a
\* residue of order Eps.
Near(a, b) == LET d == NSub(a, b) IN d[2] = 0 \/ d[1] >= 1

VecNear(u, v) == \A i \in 1..4 : Near(u[i], v[i])

\* C9: camera_from_world applied to p is R * (p - t), up to f64 rounding;
\* with zero rotation it is p - t and with zero translation R * p.
C9_ViewOrder ==
    mx_op = "view" =>
      /\ VecNear(mx_out, MatVec(rotate(mx_r), to_homogeneous(Sub(mx_p, mx_t))))
      /\ mx_r = << 0, 0, 0 >> => mx_out = to_homogeneous(Sub(mx_p, mx_t))
      /\ mx_t = << Zero, Zero, Zero >> =>
            mx_out = MatVec(rotate(mx_r), to_homogeneous(mx_p))

\* A pose at which R * (p - t) and R * p - t differ, the view matrix applied.
C9_Witness ==
    /\ mx_op = "view"
    /\ ~VecNear(mx_out,
                to_homogeneous(
                    Sub(from_homogeneous(MatVec(rotate(mx_r), to_homogeneous(mx_p))).point,
                        mx_t)))

\* C10 as claimed: rotate(ax, ay, az) * p = RotateZ(az) * (RotateY(ay) *
\* (RotateX(ax) * p)) up to f64 rounding, the X rotation applied to the
\* point first.
C10_Original ==
    mx_op = "rotate" =>
      VecNear(mx_out,
              MatVec(rotate_z(mx_r[3]),
                  MatVec(rotate_y(mx_r[2]),
                      MatVec(rotate_x(mx_r[1]), to_homogeneous(mx_p)))))

\* C10 amended: rotate(ax, ay, az) * p = RotateX(ax) * (RotateY(ay) *
\* (RotateZ(az) * p)) up to f64 rounding, the Z rotation applied to the
\* point first, then Y, then X.
C10_Amended ==
    mx_op = "rotate" =>
      VecNear(mx_out,
              MatVec(rotate_x(mx_r[1]),
                  MatVec(rotate_y(mx_r[2]),
                      MatVec(rotate_z(mx_r[3]), to_homogeneous(mx_p)))))

\* An orientation and point at which the two orders give different results.
C10_Witness ==
    /\ mx_op = "rotate"
    /\ ~VecNear(mx_out,
                MatVec(rotate_z(mx_r[3]),
                    MatVec(rotate_y(mx_r[2]),
                        MatVec(rotate_x(mx_r[1]), to_homogeneous(mx_p)))))

====
